---- MODULE Spec2Model ----
(***************************************************************************)
(* PadFusion rewrite rule of onnxruntime/core/optimizer/pad_fusion.cc:     *)
(* a constant, zero valued Pad feeding Conv / AveragePool / MaxPool,       *)
(* directly or through one Cast, is folded into the consumer's pads.       *)
(*                                                                         *)
(* The graph is the state: nodes (index -> op, version, inputs, outputs,   *)
(* attributes), edges, constant initializers, graph outputs, the shapes    *)
(* cached on the node args.  The host rule engine evaluates                *)
(* SatisfyCondition on the Pad node and, when it holds, calls Apply.       *)
(***************************************************************************)
EXTENDS Integers, Sequences, FiniteSets, TLC

VARIABLES
  nodes,          \* node index -> [op, since_version, inputs, outputs, attrs]
  edges,          \* set of [src, dst, dst_arg] (dst_arg: 0-based input slot)
  initializers,   \* tensor name -> constant data (pads: int64s, value: bytes)
  graph_outputs,  \* names of the node args that are outputs of the graph
  shapes,         \* tensor name -> shape cached on the node arg
  phase,          \* Unmatched -> Matched | Rejected,  Matched -> Applied | NoOp
  rule_effect,    \* RewriteRuleEffect out-parameter of Apply
  status          \* Status returned by Apply ("none" before the call)

vars == <<nodes, edges, initializers, graph_outputs, shapes, phase, rule_effect, status>>

graph == <<nodes, edges, initializers, graph_outputs, shapes>>

\* Largest tensor rank of the Pad input (pads sequences have length 2*rank).
MaxRank == 3
\* Largest single pad amount enumerated for a spatial entry.
MaxPad == 1

-----------------------------------------------------------------------------
(* Host graph API used by the rule *)

IsSupportedOptypeVersionAndDomain(node, op_type, versions) ==
  node.op = op_type /\ node.since_version \in versions

OutputEdges(n) == {e \in edges : e.src = n}

GetOutputEdgesCount(n) == Cardinality(OutputEdges(n))

\* The node at the other end of the first output edge; the rule reads it only
\* where the node has exactly one output edge.
OutputNodesBegin(n) == CHOOSE d \in {e.dst : e \in OutputEdges(n)} : TRUE

NodeProducesGraphOutput(n) ==
  \E i \in 1..Len(nodes[n].outputs) : nodes[n].outputs[i] \in graph_outputs

NodeArgIsConstant(name) == name \in DOMAIN initializers

HasAttr(node, name) == name \in DOMAIN node.attrs

AddAttribute(node, name, value) ==
  [node EXCEPT !.attrs =
     [a \in DOMAIN node.attrs \cup {name} |-> IF a = name THEN value ELSE node.attrs[a]]]

RemoveNodeOutputEdges(E, n) == {e \in E : e.src # n}

\* 0-based input slot, as in the C++ call
ReplaceNodeInput(N, n, slot, name) ==
  [N EXCEPT ![n].inputs[slot + 1] = name]

RemoveNode(N, n) == [m \in DOMAIN N \ {n} |-> N[m]]

RemoveNodeInputEdges(E, n) == {e \in E : e.dst # n}

Zeros(n) == [i \in 1..n |-> 0]

-----------------------------------------------------------------------------
(* VerifyNotCastChild, pad_fusion.cc:11-51 *)

IsFusableConsumer(child_node) ==
  \/ IsSupportedOptypeVersionAndDomain(child_node, "Conv", {1, 11})
  \/ IsSupportedOptypeVersionAndDomain(child_node, "AveragePool", {7, 10, 11, 19})
  \/ IsSupportedOptypeVersionAndDomain(child_node, "MaxPool", {1, 8, 10, 11, 12})

\* variant: the output count test off by one
HasOptionalOutput_OffByOne(child_node) == Len(child_node.outputs) > 2

HasOptionalOutput(child_node) == Len(child_node.outputs) > 1

UsesAutoPad(child_node) ==
  HasAttr(child_node, "auto_pad") /\ child_node.attrs["auto_pad"] # "NOTSET"

IsNonZero(value) == value # 0

AnyNonZero(values) == \E i \in 1..Len(values) : IsNonZero(values[i])

\* variant: all_of in place of any_of on the existing pads
ExcludesExistingPad_AllOf(child_node) ==
  /\ child_node.op = "AveragePool"
  /\ LET has_pad == /\ HasAttr(child_node, "pads")
                    /\ Len(child_node.attrs["pads"]) # 0
                    /\ (\A i \in 1..Len(child_node.attrs["pads"]) : IsNonZero(child_node.attrs["pads"][i]))
     IN  /\ has_pad
         /\ HasAttr(child_node, "count_include_pad")
         /\ child_node.attrs["count_include_pad"] = 0

\* AveragePool that already pads and excludes the padding from the average
ExcludesExistingPad(child_node) ==
  /\ child_node.op = "AveragePool"
  /\ LET has_pad == /\ HasAttr(child_node, "pads")
                    /\ Len(child_node.attrs["pads"]) # 0
                    /\ AnyNonZero(child_node.attrs["pads"])
     IN  /\ has_pad
         /\ HasAttr(child_node, "count_include_pad")
         /\ child_node.attrs["count_include_pad"] = 0

VerifyNotCastChild(child_node) ==
  IF ~IsFusableConsumer(child_node) THEN FALSE
  ELSE IF HasOptionalOutput(child_node) THEN FALSE
  ELSE IF UsesAutoPad(child_node) THEN FALSE
  ELSE IF ExcludesExistingPad(child_node) THEN FALSE
  ELSE TRUE

-----------------------------------------------------------------------------
(* UpdatePaddingAttribute, pad_fusion.cc:53-77 *)

\* pads_size is a uint32_t; it is 2*rank >= 4 on every graph of this model
\* (a Conv or pooling input has a batch and a channel dimension), so
\* pads_size - 4 does not wrap.
ResetPads(child_node, pads_size) ==
  LET reset_pads == IF HasAttr(child_node, "pads")
                    THEN Len(child_node.attrs["pads"]) = 0
                    ELSE TRUE
  IN  IF reset_pads
      THEN AddAttribute(child_node, "pads", Zeros(pads_size - 4))
      ELSE child_node

\* variant: the end side reads the begin-side entry of the Pad's pads
RECURSIVE MergePads_BeginForEnd(_, _, _, _)
MergePads_BeginForEnd(child_pads, pads_values, pads_size, pads_index) ==
  IF pads_index < pads_size \div 2
  THEN LET child_index == pads_index - 2
           child_pads_size == Len(child_pads)
           begin_set == [child_pads EXCEPT ![child_index + 1] =
                           @ + pads_values[pads_index + 1]]
           mirrored_child_index == child_index + (child_pads_size \div 2)
           end_set == [begin_set EXCEPT ![mirrored_child_index + 1] =
                         @ + pads_values[pads_index + 1]]
       IN  MergePads_BeginForEnd(end_set, pads_values, pads_size, pads_index + 1)
  ELSE child_pads

\* The loop of lines 67-72; indices are the 0-based ones of the code.
RECURSIVE MergePads(_, _, _, _)
MergePads(child_pads, pads_values, pads_size, pads_index) ==
  IF pads_index < pads_size \div 2
  THEN LET child_index == pads_index - 2
           child_pads_size == Len(child_pads)
           begin_set == [child_pads EXCEPT ![child_index + 1] =
                           @ + pads_values[pads_index + 1]]
           mirrored_child_index == child_index + (child_pads_size \div 2)
           mirrored_pad_index == pads_index + (pads_size \div 2)
           end_set == [begin_set EXCEPT ![mirrored_child_index + 1] =
                         @ + pads_values[mirrored_pad_index + 1]]
       IN  MergePads(end_set, pads_values, pads_size, pads_index + 1)
  ELSE child_pads

\* variant: count_include_pad set whatever the operator
SetCountIncludePad_AnyOp(child_node) ==
  AddAttribute(child_node, "count_include_pad", 1)

SetCountIncludePad(child_node) ==
  IF child_node.op = "AveragePool"
  THEN AddAttribute(child_node, "count_include_pad", 1)
  ELSE child_node

UpdatePaddingAttribute(child_node, pads_values, pads_size) ==
  LET reset == ResetPads(child_node, pads_size)
      merged == [reset EXCEPT !.attrs["pads"] = MergePads(@, pads_values, pads_size, 2)]
  IN  SetCountIncludePad(merged)

-----------------------------------------------------------------------------
(* PadFusion::SatisfyCondition, pad_fusion.cc:91-145 *)

IsFusablePad(n) ==
  /\ IsSupportedOptypeVersionAndDomain(nodes[n], "Pad", {1, 2, 11, 13, 18, 19})
  /\ GetOutputEdgesCount(n) = 1
  /\ Len(nodes[n].inputs) <= 3

HasNonConstantMode(n) ==
  HasAttr(nodes[n], "mode") /\ nodes[n].attrs["mode"] # "constant"

\* opset >= 11: pads and constant_value are inputs and must be initializers,
\* and every byte of constant_value must be zero
ConstantInputsOk(n) ==
  IF \/ ~NodeArgIsConstant(nodes[n].inputs[2])
     \/ (Len(nodes[n].inputs) > 2 /\ ~NodeArgIsConstant(nodes[n].inputs[3]))
  THEN FALSE
  ELSE IF Len(nodes[n].inputs) > 2
  THEN ~AnyNonZero(initializers[nodes[n].inputs[3]])
  ELSE TRUE

\* opset < 11: the "value" attribute must be 0.0 when present
ValueAttributeOk(n) ==
  ~(HasAttr(nodes[n], "value") /\ nodes[n].attrs["value"] # 0)

ConsumerOk(n) ==
  LET child_node == OutputNodesBegin(n)
  IN  IF IsSupportedOptypeVersionAndDomain(nodes[child_node], "Cast", {1, 6, 9, 13})
      THEN IF GetOutputEdgesCount(child_node) # 1 THEN FALSE
           ELSE IF NodeProducesGraphOutput(child_node) THEN FALSE
           ELSE VerifyNotCastChild(nodes[OutputNodesBegin(child_node)])
      ELSE VerifyNotCastChild(nodes[child_node])

SatisfyCondition(n) ==
  IF ~IsFusablePad(n) THEN FALSE
  ELSE IF NodeProducesGraphOutput(n) THEN FALSE
  ELSE IF HasNonConstantMode(n) THEN FALSE
  ELSE IF (IF nodes[n].since_version >= 11
           THEN ~ConstantInputsOk(n)
           ELSE ~ValueAttributeOk(n)) THEN FALSE
  ELSE ConsumerOk(n)

-----------------------------------------------------------------------------
(* PadFusion::Apply, pad_fusion.cc:150-189 *)

ResolvedPads(pad_node) ==
  IF nodes[pad_node].since_version >= 11
  THEN initializers[nodes[pad_node].inputs[2]]
  ELSE nodes[pad_node].attrs["pads"]

\* variant: only the begin side of the batch and channel dimensions is tested
PadsNonFeatureDims_BeginOnly(pads_values, pads_size) ==
  \/ pads_values[0 + 1] # 0
  \/ pads_values[1 + 1] # 0

\* padding on the batch or channel dimension (begin or end side)
PadsNonFeatureDims(pads_values, pads_size) ==
  \/ pads_values[0 + 1] # 0
  \/ pads_values[1 + 1] # 0
  \/ pads_values[pads_size \div 2 + 1] # 0
  \/ pads_values[pads_size \div 2 + 1 + 1] # 0

IsNegative(value) == value < 0

\* variant: any_of stops at the middle of the sequence
HasNegativePad_BeginHalf(pads_values) ==
  \E i \in 1..(Len(pads_values) \div 2) : IsNegative(pads_values[i])

HasNegativePad(pads_values) ==
  \E i \in 1..Len(pads_values) : IsNegative(pads_values[i])

TargetPaddingNode(child_node) ==
  IF nodes[child_node].op = "Cast" THEN OutputNodesBegin(child_node) ELSE child_node

\* nodes after lines 177-186: pads merged on the target, input 0 of the
\* immediate consumer rewired to the Pad's data input, Pad node removed
FusedNodes(pad_node, pads_values, pads_size) ==
  LET child_node == OutputNodesBegin(pad_node)
      target_padding_node == TargetPaddingNode(child_node)
      updated == [nodes EXCEPT ![target_padding_node] =
                    UpdatePaddingAttribute(@, pads_values, pads_size)]
      rewired == ReplaceNodeInput(updated, child_node, 0, nodes[pad_node].inputs[1])
  IN  RemoveNode(rewired, pad_node)

\* variant: the Pad's output edges are left in place
FusedEdges_KeepOutputEdges(pad_node) == RemoveNodeInputEdges(edges, pad_node)

\* edges after lines 179 and 186
FusedEdges(pad_node) ==
  RemoveNodeInputEdges(RemoveNodeOutputEdges(edges, pad_node), pad_node)

\* variant: the Cast output takes the shape of the Pad's output
FusedShapes_PadOutput(pad_node) ==
  LET child_node == OutputNodesBegin(pad_node)
  IN  IF nodes[child_node].op = "Cast"
      THEN [shapes EXCEPT ![nodes[child_node].outputs[1]] =
              shapes[nodes[pad_node].outputs[1]]]
      ELSE shapes

\* shapes after lines 182-185: the Cast output takes the Pad input's shape
FusedShapes(pad_node) ==
  LET child_node == OutputNodesBegin(pad_node)
  IN  IF nodes[child_node].op = "Cast"
      THEN [shapes EXCEPT ![nodes[child_node].outputs[1]] =
              shapes[nodes[pad_node].inputs[1]]]
      ELSE shapes

Apply(pad_node) ==
  LET pads_values == ResolvedPads(pad_node)
      pads_size == Len(pads_values)
  IN  IF PadsNonFeatureDims(pads_values, pads_size) \/ HasNegativePad(pads_values)
      THEN /\ status' = "OK"
           /\ UNCHANGED <<graph, rule_effect>>
      ELSE /\ nodes' = FusedNodes(pad_node, pads_values, pads_size)
           /\ edges' = FusedEdges(pad_node)
           /\ shapes' = FusedShapes(pad_node)
           /\ rule_effect' = "kRemovedCurrentNode"
           /\ status' = "OK"
           /\ UNCHANGED <<initializers, graph_outputs>>

-----------------------------------------------------------------------------
(* The graphs the rule is run on.  A graph is                              *)
(*   producer -> Pad -> [Cast ->] consumer      (+ a second reader "other" *)
(*   of the Pad or Cast output when that output fans out)                  *)
(* described by a Pad configuration, the Pad's pads sequence and a         *)
(* consumer chain configuration.                                           *)

NoAttrs == [a \in {} |-> 0]

PadAttrs(pc, pads) ==
  [a \in (IF pc.version < 11 THEN {"pads"} ELSE {})
         \cup (IF pc.mode # "absent" THEN {"mode"} ELSE {})
         \cup (IF pc.value # "absent" THEN {"value"} ELSE {}) |->
     CASE a = "pads" -> pads
       [] a = "mode" -> pc.mode
       [] a = "value" -> IF pc.value = "zero" THEN 0 ELSE 1]

PadInputs(pc) ==
  IF pc.version < 11 THEN <<"X">>
  ELSE SubSeq(<<"X", "pads", "constant_value", "axes">>, 1, pc.ninputs)

\* raw bytes of a constant_value initializer: 0.0 and 1.0 as float16
ConstantValueBytes(cv) == IF cv = "zero" THEN <<0, 0>> ELSE <<0, 60>>

PadInitializers(pc, pads) ==
  [t \in (IF pc.version >= 11 /\ pc.pads_const THEN {"pads"} ELSE {})
         \cup (IF pc.cv \in {"zero", "nonzero"} THEN {"constant_value"} ELSE {}) |->
     IF t = "pads" THEN pads ELSE ConstantValueBytes(pc.cv)]

ConsumerAttrs(t) ==
  [a \in (IF t.op = "Cast" THEN {"to"} ELSE {"kernel_shape"})
         \cup (IF t.has_pads THEN {"pads"} ELSE {})
         \cup (IF t.auto_pad # "absent" THEN {"auto_pad"} ELSE {})
         \cup (IF t.cip >= 0 THEN {"count_include_pad"} ELSE {}) |->
     CASE a = "to" -> 1
       [] a = "kernel_shape" -> <<3>>
       [] a = "pads" -> t.pads
       [] a = "auto_pad" -> t.auto_pad
       [] a = "count_include_pad" -> t.cip]

\* the consumer reads `src` at input slot `slot` (only Conv has a second input)
ConsumerInputs(t, src, slot) ==
  IF t.op = "Conv" THEN (IF slot = 0 THEN <<src, "W">> ELSE <<"D", src>>)
  ELSE <<src>>

ConsumerNode(t, src, slot) ==
  [op |-> t.op, since_version |-> t.version,
   inputs |-> ConsumerInputs(t, src, slot),
   outputs |-> IF t.nout = 1 THEN <<"Y">> ELSE <<"Y", "Indices">>,
   attrs |-> ConsumerAttrs(t)]

BaseShape(r) == [i \in 1..r |-> 4]

PaddedShape(pads, r) == [i \in 1..r |-> 4 + pads[i] + pads[i + r]]

GraphNodes(pc, pads, ch) ==
  LET ids == {"producer", "pad", "child"}
               \cup (IF ch.cast THEN {"grandchild"} ELSE {})
               \cup (IF pc.fanout = 2 \/ (ch.cast /\ ch.cast_fanout = 2)
                     THEN {"other"} ELSE {})
  IN  [n \in ids |->
        CASE n = "producer" ->
               [op |-> "Relu", since_version |-> 14, inputs |-> <<"In">>,
                outputs |-> <<"X">>, attrs |-> NoAttrs]
          [] n = "pad" ->
               [op |-> "Pad", since_version |-> pc.version, inputs |-> PadInputs(pc),
                outputs |-> <<"pad_out">>, attrs |-> PadAttrs(pc, pads)]
          [] n = "child" ->
               IF ch.cast
               THEN [op |-> "Cast", since_version |-> 13, inputs |-> <<"pad_out">>,
                     outputs |-> <<"cast_out">>, attrs |-> [a \in {"to"} |-> 1]]
               ELSE ConsumerNode(ch.term, "pad_out", ch.slot)
          [] n = "grandchild" -> ConsumerNode(ch.term, "cast_out", ch.slot)
          [] n = "other" ->
               [op |-> "Relu", since_version |-> 14,
                inputs |-> IF pc.fanout = 2 THEN <<"pad_out">> ELSE <<"cast_out">>,
                outputs |-> <<"Z">>, attrs |-> NoAttrs]]

GraphEdges(pc, ch) ==
  {[src |-> "producer", dst |-> "pad", dst_arg |-> 0],
   [src |-> "pad", dst |-> "child", dst_arg |-> IF ch.cast THEN 0 ELSE ch.slot]}
  \cup (IF ch.cast
        THEN {[src |-> "child", dst |-> "grandchild", dst_arg |-> ch.slot]}
        ELSE {})
  \cup (IF pc.fanout = 2
        THEN {[src |-> "pad", dst |-> "other", dst_arg |-> 0]}
        ELSE IF ch.cast /\ ch.cast_fanout = 2
        THEN {[src |-> "child", dst |-> "other", dst_arg |-> 0]}
        ELSE {})

GraphOutputs(pc, ch) ==
  {"Y"} \cup (IF pc.graph_out THEN {"pad_out"} ELSE {})
        \cup (IF ch.cast /\ ch.cast_graph_out THEN {"cast_out"} ELSE {})

GraphShapes(pads, ch) ==
  LET r == Len(pads) \div 2
  IN  [t \in {"X", "pad_out"} \cup (IF ch.cast THEN {"cast_out"} ELSE {}) |->
        IF t = "X" THEN BaseShape(r) ELSE PaddedShape(pads, r)]

InitGraph(pc, pads, ch) ==
  /\ nodes = GraphNodes(pc, pads, ch)
  /\ edges = GraphEdges(pc, ch)
  /\ initializers = PadInitializers(pc, pads)
  /\ graph_outputs = GraphOutputs(pc, ch)
  /\ shapes = GraphShapes(pads, ch)
  /\ phase = "Unmatched"
  /\ rule_effect = "kNone"
  /\ status = "none"

(* Pad configurations *)

PadConfig(version, mode, value, ninputs, pads_const, cv, graph_out, fanout) ==
  [version |-> version, mode |-> mode, value |-> value, ninputs |-> ninputs,
   pads_const |-> pads_const, cv |-> cv, graph_out |-> graph_out, fanout |-> fanout]

Modes == {"absent", "constant", "reflect"}

\* (graph output?, number of output edges)
PadUses == {<<FALSE, 1>>, <<TRUE, 1>>, <<FALSE, 2>>}

PadConfigs ==
  {PadConfig(2, m, v, 1, FALSE, "none", u[1], u[2]) :
     m \in Modes, v \in {"absent", "zero", "nonzero"}, u \in PadUses}
  \cup {PadConfig(11, m, "absent", 2, c, "none", u[1], u[2]) :
     m \in Modes, c \in BOOLEAN, u \in PadUses}
  \cup {PadConfig(11, m, "absent", 3, c, cv, u[1], u[2]) :
     m \in Modes, c \in BOOLEAN, cv \in {"nonconst", "zero", "nonzero"}, u \in PadUses}
  \cup {PadConfig(11, m, "absent", 4, TRUE, "zero", u[1], u[2]) :
     m \in Modes, u \in PadUses}
  \cup {PadConfig(21, "absent", "absent", 2, TRUE, "none", u[1], u[2]) : u \in PadUses}

\* the two encodings of a plain constant zero Pad
PlainPadConfigs ==
  {PadConfig(2, "constant", "zero", 1, FALSE, "none", FALSE, 1),
   PadConfig(11, "absent", "absent", 3, TRUE, "zero", FALSE, 1)}

(* pads sequences of the Pad node, [begin_1..begin_r, end_1..end_r] *)

\* ns = 0: no batch/channel padding; ns = 1..4: a pad of 1 on batch begin,
\* channel begin, batch end, channel end; sp: the 2*(r-2) spatial entries
MkPads(r, ns, sp) ==
  [i \in 1..(2 * r) |->
     IF i <= 2 THEN (IF ns = i THEN 1 ELSE 0)
     ELSE IF i <= r THEN sp[i - 2]
     ELSE IF i <= r + 2 THEN (IF ns = i - r + 2 THEN 1 ELSE 0)
     ELSE sp[i - 4]]

PadSeqs(r) ==
  {MkPads(r, ns, sp) : ns \in 0..4, sp \in [1..(2 * (r - 2)) -> (-1)..MaxPad]}

SamplePads == {<<0, 0, 1, 0, 0, 1>>, <<0, 0, -1, 0, 0, 1>>, <<0, 1, 0, 0, 0, 0>>}

(* consumer configurations *)

Consumer(op, version, nout, has_pads, pads, auto_pad, cip) ==
  [op |-> op, version |-> version, nout |-> nout, has_pads |-> has_pads,
   pads |-> pads, auto_pad |-> auto_pad, cip |-> cip]

\* existing pads of a consumer with n spatial pad entries: absent, empty,
\* all zero, <<1, .., n>>, <<0, .., 0, 1>>
ExistingPads(n) ==
  {<<FALSE, <<>> >>, <<TRUE, <<>> >>, <<TRUE, Zeros(n)>>,
   <<TRUE, [i \in 1..n |-> i]>>, <<TRUE, [i \in 1..n |-> IF i = n THEN 1 ELSE 0]>>}

\* a supported version and a later one the rule does not list
Versions(op) ==
  CASE op = "Conv" -> {11, 22}
    [] op = "AveragePool" -> {19, 22}
    [] op = "MaxPool" -> {12, 22}
    [] op = "Cast" -> {13, 19}

Consumers(n) ==
  UNION {{Consumer(op, v, nout, q[1], q[2], ap, cip) :
            v \in Versions(op), nout \in 1..2, q \in ExistingPads(n),
            ap \in {"absent", "NOTSET", "SAME_UPPER"}, cip \in (-1)..1} :
         op \in {"Conv", "AveragePool", "MaxPool"}}
  \cup {Consumer("Cast", v, 1, FALSE, <<>>, "absent", -1) : v \in Versions("Cast")}

\* consumers every check of the predicate accepts, but for the AveragePool one
FusableConsumers(n) ==
  UNION {{Consumer(op, CHOOSE v \in Versions(op) : v < 22, 1, q[1], q[2], "absent", cip) :
            q \in ExistingPads(n),
            cip \in IF op = "AveragePool" THEN (-1)..1 ELSE {-1}} :
         op \in {"Conv", "AveragePool", "MaxPool"}}

Chain(cast, cast_fanout, cast_graph_out, slot, term) ==
  [cast |-> cast, cast_fanout |-> cast_fanout, cast_graph_out |-> cast_graph_out,
   slot |-> slot, term |-> term]

\* no Cast, or a Cast with (graph output?, number of output edges)
CastUses == {<<FALSE, FALSE, 1>>, <<TRUE, FALSE, 1>>, <<TRUE, TRUE, 1>>, <<TRUE, FALSE, 2>>}

Chains(n) ==
  {ch \in {Chain(c[1], c[3], c[2], slot, t) :
             c \in CastUses, slot \in 0..1, t \in Consumers(n)} :
     ch.slot = 0 \/ ch.term.op = "Conv"}

MergeChains(n) ==
  {Chain(cast, 1, FALSE, 0, t) : cast \in BOOLEAN, t \in FusableConsumers(n)}

SampleChains ==
  {Chain(FALSE, 1, FALSE, 0, Consumer("Conv", 11, 1, FALSE, <<>>, "absent", -1)),
   Chain(TRUE, 1, FALSE, 0, Consumer("AveragePool", 19, 1, TRUE, <<0, 0>>, "NOTSET", 0))}

\* every Pad configuration, on sample pads and consumers
InitPadVariety ==
  \E pc \in PadConfigs, pads \in SamplePads, ch \in SampleChains :
    InitGraph(pc, pads, ch)

\* every consumer chain, behind a plain Pad with sample pads
InitConsumerVariety ==
  \E pc \in PlainPadConfigs, pads \in SamplePads, ch \in Chains(2) :
    InitGraph(pc, pads, ch)

\* every pads sequence up to MaxRank, MaxPad, on fusable chains
InitPadsVariety ==
  \E r \in 2..MaxRank :
    \E pc \in PlainPadConfigs, pads \in PadSeqs(r), ch \in MergeChains(2 * (r - 2)) :
      InitGraph(pc, pads, ch)

\* rank 4 pads (two spatial dimensions) on fusable chains
ExamplePads == {<<0, 0, 1, 1, 0, 0, 1, 1>>, <<0, 0, 1, 2, 0, 0, 3, 4>>}

InitExamples ==
  \E pc \in PlainPadConfigs, pads \in ExamplePads, ch \in MergeChains(4) :
    InitGraph(pc, pads, ch)

Init == InitPadVariety \/ InitConsumerVariety \/ InitPadsVariety \/ InitExamples

-----------------------------------------------------------------------------
(* The host rule engine: the predicate, then the rewrite *)

SatisfyConditionStep ==
  /\ phase = "Unmatched"
  /\ phase' = IF SatisfyCondition("pad") THEN "Matched" ELSE "Rejected"
  /\ UNCHANGED <<graph, rule_effect, status>>

ApplyStep ==
  /\ phase = "Matched"
  /\ Apply("pad")
  /\ phase' = IF rule_effect' = "kRemovedCurrentNode" THEN "Applied" ELSE "NoOp"

Next == SatisfyConditionStep \/ ApplyStep

Spec == Init /\ [][Next]_vars

-----------------------------------------------------------------------------
(* Properties *)

Fuses == phase = "Matched" /\ phase' = "Applied"

\* the consumer the pads are merged into: behind the Cast when there is one
Terminal == IF "grandchild" \in DOMAIN nodes THEN "grandchild" ELSE "child"

\* the nodes reached from the Pad directly or through one Cast
TerminalConsumers ==
  LET direct == {e.dst : e \in {e \in edges : e.src = "pad"}}
  IN  direct \cup {e.dst : e \in {e \in edges : e.src \in direct /\ nodes[e.src].op = "Cast"}}

SourcePads == ResolvedPads("pad")

HasPadOnBatchOrChannel(P) ==
  LET n == Len(P)
  IN  P[1] # 0 \/ P[2] # 0 \/ P[n \div 2 + 1] # 0 \/ P[n \div 2 + 2] # 0

HasNegativeEntry(P) == \E i \in 1..Len(P) : P[i] < 0

\* pads of a node, absent or empty counted as n zeros
PadsOrZeros(node, n) ==
  IF "pads" \in DOMAIN node.attrs /\ node.attrs["pads"] # <<>>
  THEN node.attrs["pads"] ELSE [i \in 1..n |-> 0]

\* C1: every fusion leaves on the target pads of length 2*(r-2) with
\* pads[i] = Q[i] + P[i+2] and pads[i+(r-2)] = Q[i+(r-2)] + P[i+2+r] for every
\* spatial index i in 0..r-3 (P the Pad's pads of length 2*r, Q the target's
\* pads before, absent or empty counted as zeros).
C1_MergedPads ==
  [][Fuses =>
       LET P == SourcePads
           r == Len(P) \div 2
           Q == PadsOrZeros(nodes[Terminal], 2 * (r - 2))
           after == nodes'[Terminal].attrs["pads"]
       IN  Len(Q) = 2 * (r - 2) =>
             /\ Len(after) = 2 * (r - 2)
             /\ \A i \in 0..(r - 3) :
                  /\ after[i + 1] = Q[i + 1] + P[i + 2 + 1]
                  /\ after[i + (r - 2) + 1] = Q[i + (r - 2) + 1] + P[i + 2 + r + 1]]_vars

C1_Witness ==
  /\ phase = "Applied"
  /\ nodes[Terminal].op = "Conv"
  /\ nodes[Terminal].attrs["pads"] = <<2, 4, 6, 8>>

\* C2 as stated: a Pad with a nonzero batch or channel pad entry is rejected by
\* SatisfyCondition.
C2_RejectedByPredicate ==
  phase = "Matched" => ~HasPadOnBatchOrChannel(SourcePads)

\* C2, amended: SatisfyCondition does not read the pad values; a matched Pad
\* with a nonzero batch or channel pad entry is turned down by Apply, which
\* returns before any mutation of the graph.
C2_RejectedByApply ==
  [][(phase = "Matched" /\ HasPadOnBatchOrChannel(SourcePads)) =>
       (phase' = "NoOp" /\ UNCHANGED graph)]_vars

C2_Witness ==
  /\ phase = "NoOp"
  /\ HasPadOnBatchOrChannel(SourcePads)
  /\ ~HasNegativeEntry(SourcePads)

\* C3: with a negative pad entry (or a nonzero batch/channel entry) Apply
\* returns OK, does not report a removed node, and leaves nodes, edges, input
\* references, attributes and shapes as they were.
C3_NoOpLeavesGraph ==
  [][(phase = "Matched"
        /\ (HasNegativeEntry(SourcePads) \/ HasPadOnBatchOrChannel(SourcePads))) =>
       /\ status' = "OK"
       /\ rule_effect' = rule_effect
       /\ rule_effect' # "kRemovedCurrentNode"
       /\ nodes' = nodes
       /\ edges' = edges
       /\ shapes' = shapes
       /\ initializers' = initializers
       /\ graph_outputs' = graph_outputs]_vars

C3_Witness ==
  /\ phase = "NoOp"
  /\ status = "OK"
  /\ HasNegativeEntry(SourcePads)
  /\ ~HasPadOnBatchOrChannel(SourcePads)
  /\ "pad" \in DOMAIN nodes

\* AveragePool with pads present, non-empty, not all zero and
\* count_include_pad present and 0
AveragePoolExcludingPads(node) ==
  /\ node.op = "AveragePool"
  /\ "pads" \in DOMAIN node.attrs
  /\ \E i \in 1..Len(node.attrs["pads"]) : node.attrs["pads"][i] # 0
  /\ "count_include_pad" \in DOMAIN node.attrs
  /\ node.attrs["count_include_pad"] = 0

\* C4: when the terminal consumer is an AveragePool with nonzero pads and
\* count_include_pad = 0, SatisfyCondition returns false and no fusion is
\* applied.
C4_AveragePoolRejected ==
  [][(\E t \in TerminalConsumers : AveragePoolExcludingPads(nodes[t])) =>
       phase' \notin {"Matched", "Applied"}]_vars

C4_Witness ==
  /\ phase = "Rejected"
  /\ AveragePoolExcludingPads(nodes[Terminal])
  /\ nodes[Terminal].since_version = 19
  /\ Len(nodes[Terminal].outputs) = 1
  /\ "auto_pad" \notin DOMAIN nodes[Terminal].attrs
  /\ nodes["child"].op = "Cast"
  /\ "other" \notin DOMAIN nodes
  /\ graph_outputs = {"Y"}
  /\ nodes["pad"].since_version = 11
  /\ "mode" \notin DOMAIN nodes["pad"].attrs

\* C5: fusing Pad -> Cast -> consumer removes the Pad, makes the Cast read the
\* Pad's data input, keeps the Cast feeding the consumer, writes the pads on
\* the consumer and not on the Cast, and gives the Cast output the shape of
\* the Pad's input; without a Cast no shape changes.
C5_CastChain ==
  [][Fuses =>
       IF nodes["child"].op = "Cast"
       THEN /\ "pad" \notin DOMAIN nodes'
            /\ nodes'["child"].inputs = <<nodes["pad"].inputs[1]>>
            /\ {e \in edges' : e.src = "child"} = {e \in edges : e.src = "child"}
            /\ \E e \in edges' : e.src = "child" /\ e.dst = "grandchild"
            /\ nodes'["child"].attrs = nodes["child"].attrs
            /\ "pads" \in DOMAIN nodes'["grandchild"].attrs
            /\ shapes'[nodes["child"].outputs[1]] = shapes[nodes["pad"].inputs[1]]
            /\ \A t \in DOMAIN shapes \ {nodes["child"].outputs[1]} : shapes'[t] = shapes[t]
       ELSE shapes' = shapes]_vars

C5_Witness ==
  /\ phase = "Applied"
  /\ nodes["child"].op = "Cast"
  /\ nodes["child"].inputs = <<"X">>
  /\ shapes["cast_out"] = shapes["X"]
  /\ shapes["pad_out"] # shapes["X"]
  /\ nodes["grandchild"].attrs["pads"] # Zeros(Len(nodes["grandchild"].attrs["pads"]))

\* C6: a fusion removes exactly the Pad node, leaves no edge at it, and
\* SatisfyCondition is false on the fused consumer; the node count drops by
\* one on every fusion, so fusions cannot go on for ever.
C6_PadRemoved ==
  [][Fuses =>
       /\ DOMAIN nodes' = DOMAIN nodes \ {"pad"}
       /\ "pad" \in DOMAIN nodes
       /\ Cardinality(DOMAIN nodes') = Cardinality(DOMAIN nodes) - 1
       /\ \A e \in edges' : e.src # "pad" /\ e.dst # "pad"
       /\ ~SatisfyCondition("child")'
       /\ ~SatisfyCondition(Terminal)'
       /\ ~(ENABLED ApplyStep)']_vars

C6_Witness ==
  /\ phase = "Applied"
  /\ DOMAIN nodes = {"producer", "child", "grandchild"}
  /\ edges = {[src |-> "child", dst |-> "grandchild", dst_arg |-> 0]}

\* C7: after a fusion into an AveragePool its count_include_pad is 1; a Conv
\* or MaxPool target gets no count_include_pad added or changed, and only the
\* pads attribute of the target is modified.
C7_CountIncludePad ==
  [][Fuses =>
       LET before == nodes[Terminal].attrs
           after == nodes'[Terminal].attrs
       IN  IF nodes[Terminal].op = "AveragePool"
           THEN /\ "count_include_pad" \in DOMAIN after
                /\ after["count_include_pad"] = 1
                /\ DOMAIN after = DOMAIN before \cup {"pads", "count_include_pad"}
                /\ \A a \in DOMAIN before \ {"pads", "count_include_pad"} :
                     after[a] = before[a]
           ELSE /\ DOMAIN after = DOMAIN before \cup {"pads"}
                /\ \A a \in DOMAIN before \ {"pads"} : after[a] = before[a]]_vars

C7_Witness ==
  /\ phase = "Applied"
  /\ nodes[Terminal].op = "AveragePool"
  /\ nodes[Terminal].attrs["pads"] = <<1, 1, 1, 1>>
  /\ nodes[Terminal].attrs["count_include_pad"] = 1

\* C8: whatever input slot k of the immediate consumer the Pad's output edge
\* targets, after the fusion slot k reads the Pad's data input and every other
\* slot reads what it read before.
C8_RewiresConsumedSlot ==
  [][Fuses =>
       \A e \in {e \in edges : e.src = "pad"} :
         /\ nodes'[e.dst].inputs[e.dst_arg + 1] = nodes["pad"].inputs[1]
         /\ \A j \in 1..Len(nodes[e.dst].inputs) :
              j # e.dst_arg + 1 => nodes'[e.dst].inputs[j] = nodes[e.dst].inputs[j]]_vars

FusableTerminal(node) ==
  /\ \/ node.op = "Conv" /\ node.since_version \in {1, 11}
     \/ node.op = "AveragePool" /\ node.since_version \in {7, 10, 11, 19}
     \/ node.op = "MaxPool" /\ node.since_version \in {1, 8, 10, 11, 12}
  /\ Len(node.outputs) = 1
  /\ ("auto_pad" \in DOMAIN node.attrs => node.attrs["auto_pad"] = "NOTSET")

Readers(n) == {e \in edges : e.src = n}

\* C9: SatisfyCondition holds only for a Pad with one output edge, at most 3
\* inputs and no graph output, whose consumer, reached directly or through
\* exactly one Cast with one output edge and no graph output, is a supported
\* Conv, AveragePool or MaxPool with one output and no auto padding.
C9_MatchedOnlyIf ==
  phase = "Matched" =>
    /\ Cardinality(Readers("pad")) = 1
    /\ Len(nodes["pad"].inputs) <= 3
    /\ \A i \in 1..Len(nodes["pad"].outputs) : nodes["pad"].outputs[i] \notin graph_outputs
    /\ \A e \in Readers("pad") :
         \/ FusableTerminal(nodes[e.dst])
         \/ /\ nodes[e.dst].op = "Cast"
            /\ Cardinality(Readers(e.dst)) = 1
            /\ \A i \in 1..Len(nodes[e.dst].outputs) :
                 nodes[e.dst].outputs[i] \notin graph_outputs
            /\ \A e2 \in Readers(e.dst) : FusableTerminal(nodes[e2.dst])

C9_Witness ==
  /\ phase = "Matched"
  /\ nodes["child"].op = "Cast"
  /\ nodes["grandchild"].op = "MaxPool"
  /\ nodes["grandchild"].attrs["auto_pad"] = "NOTSET"

\* count_include_pad of an AveragePool, absent counted as the default 0
EffectiveCountIncludePad(node) ==
  IF "count_include_pad" \in DOMAIN node.attrs THEN node.attrs["count_include_pad"] ELSE 0

\* C10: whenever a fusion sets count_include_pad to 1 on an AveragePool, the
\* target's pads before were absent, empty or all zero, or its effective
\* count_include_pad (absent counted as 0) was already nonzero.
C10_AveragingPreserved ==
  [][(Fuses /\ nodes[Terminal].op = "AveragePool") =>
       \/ "pads" \notin DOMAIN nodes[Terminal].attrs
       \/ \A i \in 1..Len(nodes[Terminal].attrs["pads"]) : nodes[Terminal].attrs["pads"][i] = 0
       \/ EffectiveCountIncludePad(nodes[Terminal]) # 0]_vars

====
